---- MODULE Spec2Model ----
(***************************************************************************)
(* Model of backend/helpers/apikeyhelper/apikeyhelper.go: the ApiKeyHelper *)
(* that issues, rotates, looks up and revokes API keys.                    *)
(*                                                                         *)
(* Go strings are sequences of one-character strings, so that Sprintf,     *)
(* TrimSpace and regexp.Compile are computed on the characters.  A nil     *)
(* pointer is the empty tuple << >> and a non-nil pointer to x is <<x>>.   *)
(* The two strings the helper never inspects character by character, the   *)
(* random token and its HMAC digest, are records that keep their alphabet, *)
(* their length and what determines their content.                         *)
(***************************************************************************)
EXTENDS Integers, Sequences, FiniteSets, TLC

\* Number of tokens the random source hands out in one behaviour.
MaxTokens == 2

\* Number of callers that run one call each at the same time.
MaxCallers == 3

apiKeyLen == 128
DigestHexLen == 64

Nil == << >>
Some(x) == <<x>>
EmptyString == << >>

------------------------------------------------------------------------------
(* Inputs *)

ConfigValues == { << >>, <<" ">>, <<" ", "k", " ">> }
Names == { <<"n">>, <<"m">> }
Plugins == { <<"w">>, <<"(">> }
PluginFilters == { EmptyString, <<"w">> }
Paths == { <<"a">>, <<"(">> }
Extras == { EmptyString, <<"x">> }
\* The expiry a caller of Create passes; CreateForPlugin passes none.
Expiries == { Some(9) }
Users == { Nil, Some([Name |-> <<"u">>, Email |-> <<"u", "@">>]) }
\* The acting user CreateForPlugin is called with.
PluginUsers == { Nil }
Ids == 1 .. MaxTokens
Callers == 1 .. MaxCallers

------------------------------------------------------------------------------
(* Library functions the helper calls *)

RECURSIVE TrimLeft(_)
TrimLeft(s) == IF s # << >> /\ Head(s) = " " THEN TrimLeft(Tail(s)) ELSE s

RECURSIVE TrimRight(_)
TrimRight(s) ==
    IF s # << >> /\ s[Len(s)] = " " THEN TrimRight(SubSeq(s, 1, Len(s) - 1)) ELSE s

TrimSpace(s) == TrimRight(TrimLeft(s))

PluginType(pluginName) == <<"p", "l", "u", "g", "i", "n", ":">> \o pluginName

\* Nesting depth of the groups of a pattern after each character; -1 once a
\* group is closed that was never opened.
RECURSIVE GroupDepth(_, _)
GroupDepth(s, d) ==
    IF d < 0 \/ s = << >> THEN d
    ELSE GroupDepth(Tail(s), IF Head(s) = "(" THEN d + 1
                             ELSE IF Head(s) = ")" THEN d - 1 ELSE d)

\* regexp.Compile over the characters used here: literals and groups.
RegexpCompiles(s) == GroupDepth(s, 0) = 0

\* utils.RandLetterBytes(n): the n-th draw of the random source.
RandLetterBytes(n, draw) == [alphabet |-> "letters", len |-> n, content |-> <<draw>>]

EmptyKey == [alphabet |-> "none", len |-> 0, content |-> << >>]

\* An errors.Error: its type, its message and the name the message quotes.
Error(class, message, name) == [class |-> class, message |-> message, name |-> name]

NoError == Error("nil", "", EmptyString)
ErrCompile == Error("Default", "compile allowed path", EmptyString)
ErrRandom == Error("Default", "random letters", EmptyString)
ErrDuplicate(name) == Error("BadInput", "An api key with name [%s] has already exists", name)
ErrCreate == Error("Default", "error creating DB api key", EmptyString)
ErrNotFound == Error("NotFound", "could not find api key id in DB", EmptyString)
ErrGet == Error("Default", "error getting api key from DB", EmptyString)
ErrUpdate == Error("Default", "error deleting api key", EmptyString)
ErrDelete == Error("Default", "error deleting api key", EmptyString)
\* Errors of the persistence layer that the helper returns as they are.
ErrDalNotFound == Error("dal", "record not found", EmptyString)
ErrDal == Error("dal", "error", EmptyString)

------------------------------------------------------------------------------
(* State *)

VARIABLES
    config,            \* the ENCRYPTION_SECRET setting of the process
    helper,            \* "none", "ready" (constructed) or "panic"
    encryptionSecret,  \* ApiKeyHelper.encryptionSecret
    table,             \* the rows of the api key table
    nextId,            \* the identifier the table assigns to the next row
    draws,             \* number of tokens drawn from the random source
    clock,             \* number of readings of time.Now
    ret,               \* the last call: operation, arguments, collaborator
                       \* calls made, error and record returned
    issued,            \* history: the keys generated for rows that were written,
                       \* each with the identifier of its row
    revoked,           \* history: the identifiers whose Delete returned success
    running            \* the calls of concurrent callers: for each caller the
                       \* operation, its position and what it holds

vars == <<config, helper, encryptionSecret, table, nextId, draws, clock, ret,
          issued, revoked, running>>

NoCall == [op |-> "none", args |-> << >>, calls |-> << >>, err |-> NoError, rec |-> Nil]

Returns(op, args, calls, err, rec) ==
    [op |-> op, args |-> args, calls |-> calls, err |-> err, rec |-> rec]

------------------------------------------------------------------------------
(* The persistence layer (dal) *)

Where(column, value) == [column |-> column, value |-> value]

Matches(row, clauses) == \A c \in clauses : row[c.column] = c.value

\* dal.First: the matching row with the smallest primary key, if any.
DalFirst(rows, clauses) ==
    LET found == { r \in rows : Matches(r, clauses) }
    IN  IF found = {} THEN Nil
        ELSE Some(CHOOSE r \in found : \A q \in found : r.ID <= q.ID)

\* The unique index on the name column.
IsDuplicate(rows, record) == \E r \in rows : r.Name = record.Name

\* dal.Create: the row gets the next primary key.
DalCreate(rows, record, id) == rows \cup { [record EXCEPT !.ID = id] }

\* dal.Update: the row with the record's primary key takes the record's values.
DalUpdate(rows, record) == { r \in rows : r.ID # record.ID } \cup { record }

\* dal.Delete with clauses.
DalDeleteWhere(rows, clauses) == { r \in rows : ~Matches(r, clauses) }

\* dal.Delete of one entity: by its primary key.
DalDeleteEntity(rows, record) == { r \in rows : r.ID # record.ID }

------------------------------------------------------------------------------
(* ApiKeyHelper *)

\* HMAC-SHA256 under the helper's secret, printed with %x.
DigestToken(token) ==
    [alphabet |-> "hex", len |-> DigestHexLen, content |-> <<encryptionSecret, token>>]

GeneratedKey(draw) == RandLetterBytes(apiKeyLen, draw)

\* A caller that has not called yet.
Idle ==
    [op |-> "idle", pc |-> "idle", name |-> EmptyString, id |-> 0, local |-> Nil,
     key |-> EmptyKey, err |-> NoError, rec |-> Nil]

Init ==
    /\ running = [c \in Callers |-> Idle]
    /\ config \in ConfigValues
    /\ helper = "none"
    /\ encryptionSecret = EmptyString
    /\ table = {}
    /\ nextId = 1
    /\ draws = 0
    /\ clock = 0
    /\ ret = NoCall
    /\ issued = {}
    /\ revoked = {}

\* Variant: the constructor accepts any secret.
SecretMissing_Never(secret) == FALSE

\* The constructor's test of the trimmed secret.
SecretMissing(secret) == secret = EmptyString

NewApiKeyHelper ==
    /\ helper = "none"
    /\ IF SecretMissing(TrimSpace(config))
       THEN /\ helper' = "panic"
            /\ UNCHANGED encryptionSecret
       ELSE /\ helper' = "ready"
            /\ encryptionSecret' = TrimSpace(config)
    /\ UNCHANGED <<config, table, nextId, draws, clock, ret, issued, revoked, running>>

Call(name, out) == [call |-> name, out |-> out]

UserName(user) == IF user = Nil THEN EmptyString ELSE user[1].Name
UserEmail(user) == IF user = Nil THEN EmptyString ELSE user[1].Email

\* The zero value of models.ApiKey.
ZeroApiKey ==
    [ID |-> 0, CreatedAt |-> 0, UpdatedAt |-> 0,
     Creator |-> EmptyString, CreatorEmail |-> EmptyString,
     Updater |-> EmptyString, UpdaterEmail |-> EmptyString,
     Name |-> EmptyString, ApiKey |-> EmptyKey, ExpiredAt |-> Nil,
     AllowedPath |-> EmptyString, Type |-> EmptyString, Extra |-> EmptyString]

\* Variant: the plaintext key is persisted.
CreateStoredKey_Plain(apiKey, hashedApiKey) == apiKey

\* The key Create writes into the record it persists.
CreateStoredKey(apiKey, hashedApiKey) == hashedApiKey

\* Variant: the record is returned as it was persisted.
CreateReturnedKey_Hashed(apiKey, hashedApiKey) == hashedApiKey

\* The key Create writes into the record it returns.
CreateReturnedKey(apiKey, hashedApiKey) == apiKey

\* The record Create builds before it persists it.
NewApiKeyRecord(user, name, key, expiredAt, allowedPath, apiKeyType, extra, now) ==
    [ZeroApiKey EXCEPT
        !.CreatedAt = now, !.UpdatedAt = now,
        !.Name = name, !.ApiKey = key, !.ExpiredAt = expiredAt,
        !.AllowedPath = allowedPath, !.Type = apiKeyType, !.Extra = extra,
        !.Creator = UserName(user), !.CreatorEmail = UserEmail(user),
        !.Updater = UserName(user), !.UpdaterEmail = UserEmail(user)]

\* Variant: the allowed path is not checked.
AllowedPathCompiles_Any(allowedPath) == TRUE

\* Create's check of the allowed path.
AllowedPathCompiles(allowedPath) == RegexpCompiles(allowedPath)

\* Variant: a duplication error is not told apart from other failures.
CreateError_Default(isDuplication, name) == ErrCreate

\* Create's mapping of a failed tx.Create.
CreateError(isDuplication, name) == IF isDuplication THEN ErrDuplicate(name) ELSE ErrCreate

\* The body of Create, entered by the call op(args).
CreateBody(op, args, user, name, expiredAt, allowedPath, apiKeyType, extra, fault) ==
    LET apiKey == GeneratedKey(draws + 1)
        hashedApiKey == DigestToken(apiKey)
        now == clock + 1
        apiKeyRecord == NewApiKeyRecord(user, name, CreateStoredKey(apiKey, hashedApiKey),
                                        expiredAt, allowedPath, apiKeyType, extra, now)
        compiled == <<Call("regexp.Compile", "ok")>>
        generated == compiled \o <<Call("RandLetterBytes", "ok"), Call("DigestToken", "ok"),
                                   Call("time.Now", "ok")>>
    IN  /\ helper = "ready"
        /\ draws < MaxTokens
        /\ IF ~AllowedPathCompiles(allowedPath)
           THEN /\ fault = "none"
                /\ ret' = Returns(op, args, <<Call("regexp.Compile", "invalid")>>,
                                  ErrCompile, Nil)
                /\ UNCHANGED <<table, nextId, draws, clock, issued>>
           ELSE IF fault = "rand"
           THEN /\ ret' = Returns(op, args, compiled \o <<Call("RandLetterBytes", "error")>>,
                                  ErrRandom, Nil)
                /\ UNCHANGED <<table, nextId, draws, clock, issued>>
           ELSE IF fault = "create" \/ IsDuplicate(table, apiKeyRecord)
           THEN /\ ret' = Returns(op, args,
                                  generated \o <<Call("tx.Create",
                                      IF fault = "create" THEN "error" ELSE "duplicate")>>,
                                  CreateError(fault # "create", name), Nil)
                /\ draws' = draws + 1
                /\ clock' = now
                /\ UNCHANGED <<table, nextId, issued>>
           ELSE /\ table' = DalCreate(table, apiKeyRecord, nextId)
                /\ issued' = issued \cup { [id |-> nextId, key |-> apiKey] }
                /\ nextId' = nextId + 1
                /\ draws' = draws + 1
                /\ clock' = now
                /\ ret' = Returns(op, args, generated \o <<Call("tx.Create", "ok")>>, NoError,
                                  Some([apiKeyRecord EXCEPT
                                          !.ID = nextId,
                                          !.ApiKey = CreateReturnedKey(apiKey, hashedApiKey)]))
        /\ UNCHANGED <<config, helper, encryptionSecret, revoked, running>>

CreateFaults == {"none", "rand", "create"}
Types == { <<"u">>, PluginType(<<"w">>) }

Create(user, name, expiredAt, allowedPath, apiKeyType, extra, fault) ==
    CreateBody("Create", [name |-> name, allowedPath |-> allowedPath],
               user, name, expiredAt, allowedPath, apiKeyType, extra, fault)

\* The arguments CreateForPlugin hands to Create after tx, user and name:
\* expiredAt, allowedPath, apiKeyType, extra.
CreateForPluginArgs(pluginName, allowedPath, extra) ==
    [expiredAt |-> Nil, allowedPath |-> PluginType(pluginName),
     apiKeyType |-> allowedPath, extra |-> extra]

CreateForPlugin(user, name, pluginName, allowedPath, extra, fault) ==
    LET a == CreateForPluginArgs(pluginName, allowedPath, extra)
    IN  CreateBody("CreateForPlugin",
                   [pluginName |-> pluginName, extra |-> extra],
                   user, name, a.expiredAt, a.allowedPath, a.apiKeyType, a.extra, fault)

\* getApiKeyById: the record, the error and the collaborator call made.
getApiKeyById(rows, id, additionalClauses, fault) ==
    LET found == DalFirst(rows, {Where("ID", id)} \cup additionalClauses)
    IN  IF fault = "first"
        THEN [rec |-> Nil, err |-> ErrGet, calls |-> <<Call("First", "error")>>]
        ELSE IF found = Nil
        THEN [rec |-> Nil, err |-> ErrNotFound, calls |-> <<Call("First", "notfound")>>]
        ELSE [rec |-> found, err |-> NoError, calls |-> <<Call("First", "ok")>>]

ClauseSets == { {}, {Where("Extra", <<"x">>)} }
LookupFaults == {"none", "first"}

\* Lookup by identifier: getApiKeyById called on its own.
Lookup(id, clauses, fault) ==
    LET got == getApiKeyById(table, id, clauses, fault)
    IN  /\ helper = "ready"
        /\ ret' = Returns("Lookup", [id |-> id], got.calls, got.err, got.rec)
        /\ UNCHANGED <<config, helper, encryptionSecret, table, nextId, draws, clock,
                       issued, revoked, running>>

\* GetApiKey returns the record it handed to First together with First's error.
GetApiKey(clauses, fault) ==
    LET found == DalFirst(table, clauses)
    IN  /\ helper = "ready"
        /\ ret' = IF fault = "first"
                  THEN Returns("GetApiKey", << >>, <<Call("First", "error")>>, ErrDal,
                               Some(ZeroApiKey))
                  ELSE IF found = Nil
                  THEN Returns("GetApiKey", << >>, <<Call("First", "notfound")>>,
                               ErrDalNotFound, Some(ZeroApiKey))
                  ELSE Returns("GetApiKey", << >>, <<Call("First", "ok")>>, NoError, found)
        /\ UNCHANGED <<config, helper, encryptionSecret, table, nextId, draws, clock,
                       issued, revoked, running>>

\* Variant: the plaintext key is persisted.
PutStoredKey_Plain(apiKeyStr, hashApiKey) == apiKeyStr

\* The key Put writes into the record it updates.
PutStoredKey(apiKeyStr, hashApiKey) == hashApiKey

\* The key Put writes into the record it returns.
PutReturnedKey(apiKeyStr, hashApiKey) == apiKeyStr

\* Variant: the updater is overwritten also when no user is given.
PutRecord_AlwaysUpdater(apiKey, user, key, now) ==
    [apiKey EXCEPT !.ApiKey = key, !.UpdatedAt = now,
                   !.Updater = UserName(user), !.UpdaterEmail = UserEmail(user)]

\* The record Put hands to Update.
PutRecord(apiKey, user, key, now) ==
    IF user = Nil
    THEN [apiKey EXCEPT !.ApiKey = key, !.UpdatedAt = now]
    ELSE [apiKey EXCEPT !.ApiKey = key, !.UpdatedAt = now,
                        !.Updater = UserName(user), !.UpdaterEmail = UserEmail(user)]

\* Variant: a failed Update is not reported.
PutUpdateError_Ignored(failed) == NoError

\* Put's answer to the outcome of Update.
PutUpdateError(failed) == IF failed THEN ErrUpdate ELSE NoError

PutFaults == {"none", "first", "rand", "update"}

Put(user, id, fault) ==
    LET args == [id |-> id]
        got == getApiKeyById(table, id, {}, fault)
        apiKeyStr == GeneratedKey(draws + 1)
        hashApiKey == DigestToken(apiKeyStr)
        now == clock + 1
        apiKey == PutRecord(got.rec[1], user, PutStoredKey(apiKeyStr, hashApiKey), now)
        generated == got.calls \o <<Call("RandLetterBytes", "ok"),
                                    Call("DigestToken", "ok"), Call("time.Now", "ok")>>
    IN  /\ helper = "ready"
        /\ draws < MaxTokens
        /\ IF got.err # NoError
           THEN /\ ret' = Returns("Put", args, got.calls, got.err, Nil)
                /\ UNCHANGED <<table, draws, clock, issued>>
           ELSE IF fault = "rand"
           THEN /\ ret' = Returns("Put", args,
                                  got.calls \o <<Call("RandLetterBytes", "error")>>,
                                  ErrRandom, Nil)
                /\ UNCHANGED <<table, draws, clock, issued>>
           ELSE IF fault = "update"
           THEN /\ ret' = Returns("Put", args, generated \o <<Call("Update", "error")>>,
                                  PutUpdateError(TRUE), Nil)
                /\ draws' = draws + 1
                /\ clock' = now
                /\ UNCHANGED <<table, issued>>
           ELSE /\ table' = DalUpdate(table, apiKey)
                /\ issued' = issued \cup { [id |-> id, key |-> apiKeyStr] }
                /\ draws' = draws + 1
                /\ clock' = now
                /\ ret' = Returns("Put", args, generated \o <<Call("Update", "ok")>>, NoError,
                                  Some([apiKey EXCEPT
                                          !.ApiKey = PutReturnedKey(apiKeyStr, hashApiKey)]))
        /\ UNCHANGED <<config, helper, encryptionSecret, nextId, revoked, running>>

\* Variant: the delete statement names another identifier.
DeleteClauses_OtherId(id) == { Where("ID", id + 1) }

\* Variant: the delete statement has no identifier clause.
DeleteClauses_All(id) == {}

\* The clauses of Delete's delete statement.
DeleteClauses(id) == { Where("ID", id) }

DeleteFaults == {"none", "first", "delete"}

Delete(id, fault) ==
    LET args == [id |-> id]
        got == getApiKeyById(table, id, {}, fault)
    IN  /\ helper = "ready"
        /\ IF got.err # NoError
           THEN /\ ret' = Returns("Delete", args, got.calls, got.err, Nil)
                /\ UNCHANGED <<table, revoked>>
           ELSE IF fault = "delete"
           THEN /\ ret' = Returns("Delete", args, got.calls \o <<Call("Delete", "error")>>,
                                  ErrDelete, Nil)
                /\ UNCHANGED <<table, revoked>>
           ELSE /\ table' = DalDeleteWhere(table, DeleteClauses(id))
                /\ revoked' = revoked \cup {id}
                /\ ret' = Returns("Delete", args, got.calls \o <<Call("Delete", "ok")>>,
                                  NoError, Nil)
        /\ UNCHANGED <<config, helper, encryptionSecret, nextId, draws, clock, issued, running>>

\* Variant: the extra filter is left out.
PluginClauses_TypeOnly(pluginName, extra) ==
    IF pluginName # EmptyString THEN { Where("Type", PluginType(pluginName)) } ELSE {}

\* Variant: the type filter is left out.
PluginClauses_ExtraOnly(pluginName, extra) ==
    IF extra # EmptyString THEN { Where("Extra", extra) } ELSE {}

\* The clauses DeleteForPlugin builds from its non-empty filters.
PluginClauses(pluginName, extra) ==
    (IF pluginName # EmptyString THEN { Where("Type", PluginType(pluginName)) } ELSE {})
    \cup (IF extra # EmptyString THEN { Where("Extra", extra) } ELSE {})

\* Variant: a not-found outcome is returned like any other error.
DeleteForPluginLookupError_Strict(isErrorNotFound) == ErrDal

\* DeleteForPlugin's answer to a failed First.
DeleteForPluginLookupError(isErrorNotFound) == IF isErrorNotFound THEN NoError ELSE ErrDal

DeleteForPlugin(pluginName, extra, fault) ==
    LET args == [pluginName |-> pluginName, extra |-> extra]
        found == DalFirst(table, PluginClauses(pluginName, extra))
    IN  /\ helper = "ready"
        /\ IF fault = "first" \/ found = Nil
           THEN /\ ret' = Returns("DeleteForPlugin", args,
                                  <<Call("First", IF fault = "first" THEN "error"
                                                  ELSE "notfound")>>,
                                  DeleteForPluginLookupError(fault # "first"), Nil)
                /\ UNCHANGED table
           ELSE IF fault = "delete"
           THEN /\ ret' = Returns("DeleteForPlugin", args,
                                  <<Call("First", "ok"), Call("Delete", "error")>>,
                                  ErrDal, Nil)
                /\ UNCHANGED table
           ELSE /\ table' = DalDeleteEntity(table, found[1])
                /\ ret' = Returns("DeleteForPlugin", args,
                                  <<Call("First", "ok"), Call("Delete", "ok")>>, NoError, Nil)
        /\ UNCHANGED <<config, helper, encryptionSecret, nextId, draws, clock,
                       issued, revoked, running>>

Next ==
    \/ NewApiKeyHelper
    \/ \E user \in Users, name \in Names, expiredAt \in Expiries, allowedPath \in Paths,
          apiKeyType \in Types, extra \in Extras, fault \in CreateFaults :
            Create(user, name, expiredAt, allowedPath, apiKeyType, extra, fault)
    \/ \E user \in PluginUsers, name \in Names, pluginName \in Plugins, allowedPath \in Paths,
          extra \in Extras, fault \in CreateFaults :
            CreateForPlugin(user, name, pluginName, allowedPath, extra, fault)
    \/ \E user \in Users, id \in Ids, fault \in PutFaults : Put(user, id, fault)
    \/ \E id \in Ids, fault \in DeleteFaults : Delete(id, fault)
    \/ \E pluginName \in PluginFilters, extra \in Extras, fault \in DeleteFaults :
            DeleteForPlugin(pluginName, extra, fault)
    \/ \E id \in Ids, clauses \in ClauseSets, fault \in LookupFaults :
            Lookup(id, clauses, fault)
    \/ \E clauses \in ClauseSets, fault \in LookupFaults : GetApiKey(clauses, fault)

Spec == Init /\ [][Next]_vars

------------------------------------------------------------------------------
(* Concurrent callers *)

\* The helper holds no lock and Put and Delete open no transaction: a call is
\* the sequence of its persistence calls, and the calls of other callers run
\* between them.  Each caller makes one call; a step is one persistence call
\* together with the local computation that precedes it.

\* What Update does with a record whose row is gone: write it as a new row,
\* change nothing and succeed, or fail.
MissingRowUpdates == {"insert", "ignore", "error"}

ConcInit ==
    /\ config = <<" ", "k", " ">>
    /\ helper = "ready"
    /\ encryptionSecret = TrimSpace(config)
    /\ table = {}
    /\ nextId = 1
    /\ draws = 0
    /\ clock = 0
    /\ ret = NoCall
    /\ issued = {}
    /\ revoked = {}
    /\ running = [c \in Callers |-> Idle]

\* Create up to its persistence call: the pattern compiles, the key is
\* generated and the record is built.
CreateEnter(c, name) ==
    LET apiKey == GeneratedKey(draws + 1)
        hashedApiKey == DigestToken(apiKey)
        now == clock + 1
        apiKeyRecord == NewApiKeyRecord(Nil, name, CreateStoredKey(apiKey, hashedApiKey),
                                        Some(9), <<"a">>, <<"u">>, EmptyString, now)
    IN  /\ running[c].pc = "idle"
        /\ draws < MaxTokens
        /\ AllowedPathCompiles(<<"a">>)
        /\ draws' = draws + 1
        /\ clock' = now
        /\ running' = [running EXCEPT ![c] =
                         [Idle EXCEPT !.op = "Create", !.pc = "tx.Create", !.name = name,
                                      !.local = Some(apiKeyRecord), !.key = apiKey]]
        /\ UNCHANGED <<config, helper, encryptionSecret, table, nextId, ret, issued, revoked>>

\* Create's tx.Create and its return.
CreateWrite(c) ==
    LET call == running[c]
        apiKeyRecord == call.local[1]
    IN  /\ call.pc = "tx.Create"
        /\ IF IsDuplicate(table, apiKeyRecord)
           THEN /\ running' = [running EXCEPT ![c] =
                                 [call EXCEPT !.pc = "done",
                                              !.err = CreateError(TRUE, call.name)]]
                /\ UNCHANGED <<table, nextId, issued>>
           ELSE /\ table' = DalCreate(table, apiKeyRecord, nextId)
                /\ issued' = issued \cup { [id |-> nextId, key |-> call.key] }
                /\ nextId' = nextId + 1
                /\ running' = [running EXCEPT ![c] =
                                 [call EXCEPT
                                    !.pc = "done", !.id = nextId,
                                    !.rec = Some([apiKeyRecord EXCEPT
                                               !.ID = nextId,
                                               !.ApiKey = CreateReturnedKey(call.key,
                                                              DigestToken(call.key))])]]
        /\ UNCHANGED <<config, helper, encryptionSecret, draws, clock, ret, revoked>>

\* Put up to its Update: the lookup, the new key and the changed record.
PutLookup(c, id) ==
    LET got == getApiKeyById(table, id, {}, "none")
        apiKeyStr == GeneratedKey(draws + 1)
        hashApiKey == DigestToken(apiKeyStr)
        now == clock + 1
        apiKey == PutRecord(got.rec[1], Nil, PutStoredKey(apiKeyStr, hashApiKey), now)
    IN  /\ running[c].pc = "idle"
        /\ draws < MaxTokens
        /\ IF got.err # NoError
           THEN /\ running' = [running EXCEPT ![c] =
                                 [Idle EXCEPT !.op = "Put", !.pc = "done", !.id = id,
                                              !.err = got.err]]
                /\ UNCHANGED <<draws, clock>>
           ELSE /\ draws' = draws + 1
                /\ clock' = now
                /\ running' = [running EXCEPT ![c] =
                                 [Idle EXCEPT !.op = "Put", !.pc = "db.Update", !.id = id,
                                              !.local = Some(apiKey), !.key = apiKeyStr]]
        /\ UNCHANGED <<config, helper, encryptionSecret, table, nextId, ret, issued, revoked>>

\* Put's Update and its return.
PutUpdate(c, missing) ==
    LET call == running[c]
        apiKey == call.local[1]
        present == \E r \in table : r.ID = apiKey.ID
        \* a new row is subject to the uniqueness constraint on the name
        failed == /\ ~present
                  /\ \/ missing = "error"
                     \/ missing = "insert" /\ IsDuplicate(table, apiKey)
        returned == Some([apiKey EXCEPT
                            !.ApiKey = PutReturnedKey(call.key, DigestToken(call.key))])
    IN  /\ call.pc = "db.Update"
        /\ present => missing = "insert"
        /\ IF failed
           THEN /\ running' = [running EXCEPT ![c] =
                                 [call EXCEPT !.pc = "done", !.err = PutUpdateError(TRUE)]]
                /\ UNCHANGED <<table, issued>>
           ELSE /\ table' = IF ~present /\ missing = "ignore"
                            THEN table
                            ELSE DalUpdate(table, apiKey)
                /\ issued' = issued \cup { [id |-> call.id, key |-> call.key] }
                /\ running' = [running EXCEPT ![c] =
                                 [call EXCEPT !.pc = "done", !.rec = returned]]
        /\ UNCHANGED <<config, helper, encryptionSecret, nextId, draws, clock, ret, revoked>>

\* Delete up to its delete statement: the lookup.
DeleteLookup(c, id) ==
    LET got == getApiKeyById(table, id, {}, "none")
    IN  /\ running[c].pc = "idle"
        /\ running' = [running EXCEPT ![c] =
                         IF got.err # NoError
                         THEN [Idle EXCEPT !.op = "Delete", !.pc = "done", !.id = id,
                                           !.err = got.err]
                         ELSE [Idle EXCEPT !.op = "Delete", !.pc = "db.Delete", !.id = id]]
        /\ UNCHANGED <<config, helper, encryptionSecret, table, nextId, draws, clock, ret,
                       issued, revoked>>

\* Delete's delete statement and its return.
DeleteWrite(c) ==
    LET call == running[c]
    IN  /\ call.pc = "db.Delete"
        /\ table' = DalDeleteWhere(table, DeleteClauses(call.id))
        /\ revoked' = revoked \cup { call.id }
        /\ running' = [running EXCEPT ![c] = [call EXCEPT !.pc = "done"]]
        /\ UNCHANGED <<config, helper, encryptionSecret, nextId, draws, clock, ret, issued>>

ConcNext ==
    \/ \E c \in Callers, name \in Names : CreateEnter(c, name)
    \/ \E c \in Callers : CreateWrite(c)
    \/ \E c \in Callers, id \in Ids : PutLookup(c, id)
    \/ \E c \in Callers, missing \in MissingRowUpdates : PutUpdate(c, missing)
    \/ \E c \in Callers, id \in Ids : DeleteLookup(c, id)
    \/ \E c \in Callers : DeleteWrite(c)

ConcSpec == ConcInit /\ [][ConcNext]_vars

------------------------------------------------------------------------------
(* Properties *)

\* The plaintext keys generated so far.
IssuedKeys == { GeneratedKey(d) : d \in 1 .. draws }

\* The stored row with the given identifier, as a pointer.
RowById(rows, id) == DalFirst(rows, { Where("ID", id) })

\* No collaborator call of the last operation failed on its own account.
NoFault(calls) == \A i \in DOMAIN calls : calls[i].out # "error"

Called(calls, name) == \E i \in DOMAIN calls : calls[i].call = name

\* C1: after a successful Create, a lookup by the returned identifier made at
\* once finds a row whose stored key is the digest of the key Create returned,
\* and the returned key differs from the stored one.
CreateThenLookupDigest ==
    (ret.op = "Create" /\ ret.err = NoError) =>
        /\ ret.rec # Nil
        /\ LET got == getApiKeyById(table, ret.rec[1].ID, {}, "none")
           IN  /\ got.err = NoError
               /\ got.rec[1].ApiKey = DigestToken(ret.rec[1].ApiKey)
               /\ ret.rec[1].ApiKey # got.rec[1].ApiKey

CreateThenLookupWitness ==
    /\ ret.op = "Create"
    /\ ret.err = NoError
    /\ getApiKeyById(table, ret.rec[1].ID, {}, "none").err = NoError

\* C2: no stored key is a plaintext that was ever generated, no lookup returns
\* a plaintext, and a returned plaintext is the one generated by the Create or
\* Put call that returns it.
OneTimeDisclosure ==
    /\ \A r \in table : r.ApiKey \notin IssuedKeys
    /\ (ret.op \in {"Lookup", "GetApiKey"} /\ ret.rec # Nil) =>
            ret.rec[1].ApiKey \notin IssuedKeys
    /\ (ret.rec # Nil /\ ret.rec[1].ApiKey \in IssuedKeys) =>
            /\ ret.op \in {"Create", "CreateForPlugin", "Put"}
            /\ ret.rec[1].ApiKey = GeneratedKey(draws)

OneTimeDisclosureWitness ==
    /\ draws >= 2
    /\ ret.op \in {"Lookup", "GetApiKey"}
    /\ ret.err = NoError
    /\ \E k \in IssuedKeys : ret.rec[1].ApiKey = DigestToken(k)

\* C3: a successful Put(id) stores a key different from the one stored before,
\* the key it returns digests to the stored one, and no plaintext that digested
\* to the old stored key digests to the new one.
RotateReplacesDigest ==
    [][(ret'.op = "Put" /\ ret'.err = NoError /\ draws' # draws) =>
          LET old == RowById(table, ret'.args.id)
              new == RowById(table', ret'.args.id)
          IN  /\ old # Nil
              /\ new # Nil
              /\ new[1].ApiKey # old[1].ApiKey
              /\ ret'.rec # Nil
              /\ DigestToken(ret'.rec[1].ApiKey) = new[1].ApiKey
              /\ \E k \in IssuedKeys : DigestToken(k) = old[1].ApiKey
              /\ \A k \in IssuedKeys :
                    DigestToken(k) = old[1].ApiKey => DigestToken(k) # new[1].ApiKey]_vars

RotateReplacesDigestWitness ==
    /\ ret.op = "Put"
    /\ ret.err = NoError
    /\ RowById(table, ret.args.id) # Nil
    /\ RowById(table, ret.args.id)[1].ApiKey = DigestToken(ret.rec[1].ApiKey)

\* C4: a successful CreateForPlugin(name, pluginName, allowedPath, extra) adds
\* one row whose type is plugin:<pluginName>, whose allowed path is allowedPath
\* and whose expiry is absent.
CreateForPluginPersistsPluginType ==
    [][(ret'.op = "CreateForPlugin" /\ ret'.err = NoError) =>
          \A user \in PluginUsers, name \in Names, pluginName \in Plugins, allowedPath \in Paths,
             extra \in Extras :
                CreateForPlugin(user, name, pluginName, allowedPath, extra, "none") =>
                    \E r \in table' \ table :
                        /\ table' = table \cup {r}
                        /\ r.Name = name
                        /\ r.Type = PluginType(pluginName)
                        /\ r.AllowedPath = allowedPath
                        /\ r.ExpiredAt = Nil
                        /\ r.Extra = extra]_vars

\* The rows DeleteForPlugin's filters select: each non-empty filter must hold.
SelectedByFilters(rows, pluginName, extra) ==
    { r \in rows : /\ pluginName # EmptyString => r.Type = PluginType(pluginName)
                   /\ extra # EmptyString => r.Extra = extra }

\* C5: when the row issued by CreateForPlugin(name, pluginName, allowedPath,
\* extra) is the only row, DeleteForPlugin(pluginName, extra) called next, with
\* the persistence layer working, leaves the table empty.
PluginKeyRevocableByFilter ==
    [][(/\ ret.op = "CreateForPlugin"
        /\ ret.err = NoError
        /\ Cardinality(table) = 1
        /\ ret'.op = "DeleteForPlugin"
        /\ ret'.args.pluginName = ret.args.pluginName
        /\ ret'.args.extra = ret.args.extra
        /\ NoFault(ret'.calls)) =>
          /\ ret'.err = NoError
          /\ table' = {}]_vars

\* C6: a Create whose name no row has succeeds and stores a row of that name;
\* a Create whose name a row already has fails with the duplicate-name error
\* that quotes the name, returns no record and leaves the table as it was.
\* (Create calls with a compiling path and a working persistence layer and
\* random source.)
DuplicateNameRejected ==
    [][(/\ ret'.op = "Create"
        /\ draws' # draws
        /\ RegexpCompiles(ret'.args.allowedPath)
        /\ NoFault(ret'.calls)) =>
          IF \E r \in table : r.Name = ret'.args.name
          THEN /\ ret'.err = ErrDuplicate(ret'.args.name)
               /\ ret'.rec = Nil
               /\ table' = table
          ELSE /\ ret'.err = NoError
               /\ ret'.rec # Nil
               /\ \E r \in table' \ table : r.Name = ret'.args.name /\ table' = table \cup {r}]_vars

DuplicateNameRejectedWitness ==
    /\ ret.op = "Create"
    /\ ret.err = ErrDuplicate(ret.args.name)
    /\ \E r \in table : r.Name = ret.args.name

\* C7: a Create whose allowed path does not compile fails with the compile
\* error before a key is generated or the persistence layer is called: the
\* table is as it was and no record is returned.
InvalidPatternRejectedEarly ==
    [][(ret'.op = "Create" /\ ret' # ret /\ ~RegexpCompiles(ret'.args.allowedPath)) =>
          /\ ret'.err = ErrCompile
          /\ ret'.rec = Nil
          /\ table' = table
          /\ nextId' = nextId
          /\ draws' = draws
          /\ ~Called(ret'.calls, "RandLetterBytes")
          /\ ~Called(ret'.calls, "tx.Create")]_vars

InvalidPatternRejectedEarlyWitness ==
    /\ ret.op = "Create"
    /\ ~RegexpCompiles(ret.args.allowedPath)
    /\ ret.err = ErrCompile

\* C8: Delete(id) of an identifier no row has fails, with the not-found error
\* unless the lookup itself broke, and leaves the table as it was; Delete(id)
\* of an identifier a row has succeeds unless the persistence layer broke, and
\* a Delete that succeeds removes that row and no other.
DeleteByIdentifier ==
    [][(ret'.op = "Delete" /\ ret' # ret) =>
          LET id == ret'.args.id
              present == { r \in table : r.ID = id }
          IN  IF present = {}
              THEN /\ ret'.err # NoError
                   /\ NoFault(ret'.calls) => ret'.err = ErrNotFound
                   /\ table' = table
              ELSE /\ NoFault(ret'.calls) => ret'.err = NoError
                   /\ ret'.err = NoError => table' = table \ present
                   /\ ret'.err # NoError => table' = table]_vars

\* A row was deleted by its identifier while another row stays.
DeleteByIdentifierWitness ==
    /\ ret.op = "Delete"
    /\ ret.err = NoError
    /\ table # {}
    /\ \A r \in table : r.ID # ret.args.id

\* C9: a DeleteForPlugin whose filters select no row returns success and leaves
\* the table as it was; a DeleteForPlugin whose lookup or delete breaks returns
\* an error.
DeleteForPluginAbsorbsNotFound ==
    [][(ret'.op = "DeleteForPlugin" /\ ret' # ret) =>
          LET selected == SelectedByFilters(table, ret'.args.pluginName, ret'.args.extra)
          IN  /\ (selected = {} /\ NoFault(ret'.calls)) =>
                    (ret'.err = NoError /\ table' = table)
              /\ ~NoFault(ret'.calls) => (ret'.err # NoError /\ table' = table)]_vars

DeleteForPluginAbsorbsNotFoundWitness ==
    /\ ret.op = "DeleteForPlugin"
    /\ ret.err = NoError
    /\ ret.calls = <<Call("First", "notfound")>>
    /\ table # {}
    /\ SelectedByFilters(table, ret.args.pluginName, ret.args.extra) = {}

\* C10: a DeleteForPlugin removes at most one row, the row it removes is
\* selected by every non-empty filter, and the other rows stay as they were.
DeleteForPluginRemovesOne ==
    [][(ret'.op = "DeleteForPlugin" /\ ret' # ret) =>
          /\ table' \subseteq table
          /\ Cardinality(table \ table') <= 1
          /\ table \ table' \subseteq
                SelectedByFilters(table, ret'.args.pluginName, ret'.args.extra)]_vars

\* A row was removed while another selected row stays.
DeleteForPluginRemovesOneWitness ==
    /\ ret.op = "DeleteForPlugin"
    /\ ret.err = NoError
    /\ Called(ret.calls, "Delete")
    /\ ret.args.extra # EmptyString
    /\ SelectedByFilters(table, ret.args.pluginName, ret.args.extra) # {}

\* C12: a Put(id) of an identifier no row has fails with the not-found error,
\* and a Put whose Update breaks fails with the wrapped persistence error; both
\* leave the table as it was and return no record.
RotateFailuresLeaveStore ==
    [][(ret'.op = "Put" /\ ret' # ret) =>
          LET present == { r \in table : r.ID = ret'.args.id }
          IN  /\ (present = {} /\ NoFault(ret'.calls)) => ret'.err = ErrNotFound
              /\ ret'.calls[Len(ret'.calls)] = Call("Update", "error") =>
                    (ret'.err = ErrUpdate /\ present # {})
              /\ ret'.err # NoError => (table' = table /\ ret'.rec = Nil)]_vars

\* An Update broke after the new key was generated; the row keeps its key.
RotateFailuresLeaveStoreWitness ==
    /\ ret.op = "Put"
    /\ ret.err = ErrUpdate
    /\ Called(ret.calls, "Update")
    /\ \E r \in table : r.ID = ret.args.id /\ r.ApiKey # DigestToken(GeneratedKey(draws))

\* A string of nothing but spaces.
IsBlank(s) == \A i \in DOMAIN s : s[i] = " "

\* C13: construction with a secret that is absent or blank yields no helper;
\* an operation runs only on a constructed helper, whose secret is not empty
\* and is the trimmed setting; no step changes the secret of a constructed
\* helper.
SecretFixedAtConstruction ==
    [][/\ (helper = "none" /\ helper' # "none") =>
              /\ IsBlank(config) <=> helper' = "panic"
              /\ ~IsBlank(config) <=> helper' = "ready"
       /\ ret' # ret => helper = "ready"
       /\ helper' = "ready" =>
              /\ encryptionSecret' # EmptyString
              /\ ~IsBlank(encryptionSecret')
              /\ encryptionSecret' = TrimSpace(config)
       /\ helper = "ready" =>
              (helper' = "ready" /\ encryptionSecret' = encryptionSecret)]_vars

\* Operations ran and issued keys under a secret that had spaces trimmed off.
SecretFixedAtConstructionWitness ==
    /\ helper = "ready"
    /\ encryptionSecret # config
    /\ draws = MaxTokens
    /\ ret.op = "Lookup"

StoredAllowedPathCompiles ==
    \A r \in table : RegexpCompiles(r.AllowedPath)

\* Rows are stored and the last CreateForPlugin was refused by the pattern check.
StoredAllowedPathCompilesWitness ==
    /\ table # {}
    /\ ret.op = "CreateForPlugin"
    /\ ret.err = ErrCompile

\* A type of the form plugin:<name>.
IsPluginType(t) == Len(t) >= 7 /\ SubSeq(t, 1, 7) = PluginType(EmptyString)

\* C17 as claimed: a DeleteForPlugin, whatever its arguments, removes no row
\* whose type is not a plugin type.
DeleteForPluginOnlyPluginKeys ==
    [][(ret'.op = "DeleteForPlugin" /\ ret' # ret) =>
          \A r \in table \ table' : IsPluginType(r.Type)]_vars

\* C17 as amended: a DeleteForPlugin with a non-empty plugin name removes no
\* row whose type is not plugin:<pluginName>; with an empty plugin name it
\* removes the first row that has the given extra, or the first row of the
\* table when the extra is empty too, whatever the row's type.
DeleteForPluginTypeFilter ==
    [][(ret'.op = "DeleteForPlugin" /\ ret' # ret) =>
          /\ ret'.args.pluginName # EmptyString =>
                \A r \in table \ table' : r.Type = PluginType(ret'.args.pluginName)
          /\ (ret'.args.pluginName = EmptyString /\ ret'.err = NoError) =>
                LET selected == { r \in table : ret'.args.extra # EmptyString
                                                    => r.Extra = ret'.args.extra }
                IN  table \ table' =
                        { r \in selected : \A q \in selected : r.ID <= q.ID }]_vars

\* A DeleteForPlugin with a plugin name removed a row while a row of another
\* type with the same extra stays.
DeleteForPluginTypeFilterWitness ==
    /\ ret.op = "DeleteForPlugin"
    /\ ret.err = NoError
    /\ Called(ret.calls, "Delete")
    /\ ret.args.pluginName # EmptyString
    /\ \E r \in table : /\ r.Type # PluginType(ret.args.pluginName)
                        /\ ret.args.extra # EmptyString => r.Extra = ret.args.extra

\* C18: once Delete(id) has returned success, no row has that identifier, no
\* row stores the digest of a key that was issued for it, and a later lookup,
\* Put or Delete of it fails with the not-found error (the persistence layer
\* working).
RevocationIsPermanent ==
    [][/\ \A id \in revoked' :
            /\ \A r \in table' : r.ID # id
            /\ \A i \in issued' :
                  i.id = id => \A r \in table' : r.ApiKey # DigestToken(i.key)
       /\ \A id \in revoked :
            (/\ ret'.op \in {"Lookup", "Put", "Delete"}
             /\ ret' # ret
             /\ ret'.args.id = id
             /\ NoFault(ret'.calls)) => ret'.err = ErrNotFound]_vars

\* A lookup of a revoked identifier, for which a key was issued, failed while
\* another row is stored.
RevocationIsPermanentWitness ==
    /\ ret.op = "Lookup"
    /\ ret.err = ErrNotFound
    /\ ret.args.id \in revoked
    /\ \E i \in issued : i.id = ret.args.id
    /\ table # {}

\* The callers whose call of the given operation has returned.
Returned(op) == { c \in Callers : running[c].op = op /\ running[c].pc = "done" }

\* C11: when Creates with the same name run at the same time, one of them
\* succeeds and every other one fails with the duplicate-name error, and no
\* two stored rows ever share a name.
ConcurrentCreateOneWinner ==
    /\ \A r1 \in table, r2 \in table : r1.Name = r2.Name => r1 = r2
    /\ \A name \in Names :
         LET created == { c \in Returned("Create") : running[c].name = name }
         IN  (created # {} /\ revoked = {}) =>
               /\ Cardinality({ c \in created : running[c].err = NoError }) = 1
               /\ \A c \in created :
                     running[c].err # NoError => running[c].err = ErrDuplicate(name)

\* Two Creates with one name were both past key generation before either
\* wrote; the one that generated its key later wrote first and won.
ConcurrentCreateOneWinnerWitness ==
    \E c1 \in Callers, c2 \in Callers :
        /\ running[c1].op = "Create" /\ running[c2].op = "Create"
        /\ running[c1].pc = "done" /\ running[c2].pc = "done"
        /\ running[c1].name = running[c2].name
        /\ running[c1].key = GeneratedKey(2) /\ running[c2].key = GeneratedKey(1)
        /\ running[c1].err = NoError
        /\ running[c2].err = ErrDuplicate(running[c2].name)

\* C16: whatever the interleaving of a Put and a Delete of one identifier, once
\* a Delete of the identifier has returned success no row with the identifier
\* is stored in any later state, and a Put that returns success has the digest
\* of the key it returns stored on the row.
RotateDeleteInterleaving ==
    [][/\ \A id \in revoked' : \A r \in table' : r.ID # id
       /\ \A c \in Callers :
            (/\ running[c].pc = "db.Update"
             /\ running'[c].pc = "done"
             /\ running'[c].err = NoError) =>
                \E r \in table' : /\ r.ID = running'[c].id
                                  /\ r.ApiKey = DigestToken(running'[c].rec[1].ApiKey)]_vars

====
